---- MODULE Spec2Model ----
(***************************************************************************)
(* Model of advanced-data-structures/van-emde-boas/counting-nodes/math.py  *)
(* (a Python 2 script): prod(i, h), prod2(i), test(h) and the top-level    *)
(* call test(2).                                                           *)
(*                                                                         *)
(* Python numbers are modelled by what the interpreter computes:           *)
(*   - an int is arbitrary precision: a sign and a magnitude held as a     *)
(*     little-endian sequence of base-2^15 digits, multiplied digit by     *)
(*     digit;                                                              *)
(*   - pow(2, n) with a negative int n, and pow(2, x) with a float x, are  *)
(*     floats. A float is held symbolically as the double nearest to       *)
(*     mant * 2^(num / 2^den); with den > 0 that real number is            *)
(*     irrational, so the double only approximates it.                     *)
(***************************************************************************)
EXTENDS Integers, Sequences, FiniteSets, TLC

VARIABLES pc, call, caller, i, h, k, result, iters, ret, th, rng, pos, ti, out

vars == <<pc, call, caller, i, h, k, result, iters, ret, th, rng, pos, ti, out>>

(***************************************************************************)
(* Bounds of the model.                                                    *)
(***************************************************************************)
\* prod is called with h in -NegH..MaxH and i in -NegI..MaxI
MaxH == 7
NegH == 1
MaxI == 8
NegI == 2
\* prod2 is called with i in -NegI..MaxI2
MaxI2 == 5
\* test is called with h in 0..MaxTestH
MaxTestH == 4

(***************************************************************************)
(* Arbitrary-precision naturals: little-endian digit sequences, no leading *)
(* zero digit; <<>> is 0.                                                  *)
(***************************************************************************)
Base == 2^15

RECURSIVE NatToBig(_)
NatToBig(n) == IF n = 0 THEN <<>> ELSE <<n % Base>> \o NatToBig(n \div Base)

RECURSIVE BigToNat(_)
BigToNat(a) == IF a = <<>> THEN 0 ELSE Head(a) + Base * BigToNat(Tail(a))

RECURSIVE Norm(_)
Norm(a) ==
    IF a = <<>> THEN <<>>
    ELSE IF a[Len(a)] = 0 THEN Norm(SubSeq(a, 1, Len(a) - 1))
    ELSE a

\* a + b + carry, digit by digit
RECURSIVE BigAdd(_, _, _)
BigAdd(a, b, carry) ==
    IF a = <<>> /\ b = <<>> THEN (IF carry = 0 THEN <<>> ELSE <<carry>>)
    ELSE LET da == IF a = <<>> THEN 0 ELSE Head(a)
             db == IF b = <<>> THEN 0 ELSE Head(b)
             s  == da + db + carry
         IN  <<s % Base>> \o
             BigAdd(IF a = <<>> THEN <<>> ELSE Tail(a),
                    IF b = <<>> THEN <<>> ELSE Tail(b), s \div Base)

\* a * d + carry for one digit d
RECURSIVE MulDigit(_, _, _)
MulDigit(a, d, carry) ==
    IF a = <<>> THEN (IF carry = 0 THEN <<>> ELSE <<carry>>)
    ELSE LET p == Head(a) * d + carry
         IN  <<p % Base>> \o MulDigit(Tail(a), d, p \div Base)

\* schoolbook multiplication
RECURSIVE BigMul(_, _)
BigMul(a, b) ==
    IF a = <<>> \/ b = <<>> THEN <<>>
    ELSE Norm(BigAdd(MulDigit(a, Head(b), 0),
                     (IF Tail(b) = <<>> THEN <<>> ELSE <<0>> \o BigMul(a, Tail(b))),
                     0))

\* a^n by binary exponentiation (square, and multiply on an odd exponent)
RECURSIVE BigPow(_, _)
BigPow(a, n) ==
    IF n = 0 THEN <<1>>
    ELSE LET half == BigPow(a, n \div 2)
             sq   == BigMul(half, half)
         IN  IF n % 2 = 1 THEN BigMul(sq, a) ELSE sq

\* a < b
RECURSIVE BigLess(_, _)
BigLess(a, b) ==
    IF Len(a) # Len(b) THEN Len(a) < Len(b)
    ELSE IF a = <<>> THEN FALSE
    ELSE IF a[Len(a)] # b[Len(b)] THEN a[Len(a)] < b[Len(b)]
    ELSE BigLess(SubSeq(a, 1, Len(a) - 1), SubSeq(b, 1, Len(b) - 1))

\* quotient and remainder of a by a small m, from the top digit down
RECURSIVE DivSmall(_, _)
DivSmall(a, m) ==
    IF a = <<>> THEN [q |-> <<>>, r |-> 0]
    ELSE LET rest == DivSmall(Tail(a), m)
             cur  == rest.r * Base + Head(a)
         IN  [q |-> <<cur \div m>> \o rest.q, r |-> cur % m]

\* number of bits of a small natural, and of a big one
RECURSIVE Bits(_)
Bits(n) == IF n = 0 THEN 0 ELSE 1 + Bits(n \div 2)

BitLength(a) == IF a = <<>> THEN 0 ELSE 15 * (Len(a) - 1) + Bits(a[Len(a)])

(***************************************************************************)
(* Python values.                                                          *)
(***************************************************************************)
None == [kind |-> "none"]

PyInt(n) == [kind |-> "int", neg |-> n < 0, mag |-> NatToBig(IF n < 0 THEN -n ELSE n)]

PyFloat(m, n, d) == [kind |-> "float", mant |-> m, num |-> n, den |-> d]

Two == PyInt(2)

One == PyInt(1)

\* n1/2^d1 + n2/2^d2 as <<n, d>> in lowest terms
RECURSIVE Reduce(_, _)
Reduce(n, d) == IF d > 0 /\ n % 2 = 0 THEN Reduce(n \div 2, d - 1) ELSE <<n, d>>

AddDyadic(n1, d1, n2, d2) ==
    LET d == IF d1 > d2 THEN d1 ELSE d2
    IN  Reduce(n1 * 2^(d - d1) + n2 * 2^(d - d2), d)

\* The builtin pow(b, e), for the calls the script makes (b is the int 2):
\*   int ** non-negative int  is an int, computed exactly;
\*   2 ** negative int        is the float 2^e, a power of two, exact;
\*   2 ** float 2^n           is the float nearest to 2^(2^n).
pow(b, e) ==
    CASE e.kind = "int" /\ ~e.neg ->
            [kind |-> "int",
             neg  |-> b.neg /\ BigToNat(e.mag) % 2 = 1,
             mag  |-> BigPow(b.mag, BigToNat(e.mag))]
      [] e.kind = "int" /\ e.neg /\ b = Two ->
            PyFloat(<<1>>, -BigToNat(e.mag), 0)
      [] e.kind = "float" /\ b = Two /\ e.mant = <<1>> /\ e.den = 0 /\ e.num >= 0 ->
            PyFloat(<<1>>, 2^e.num, 0)
      [] e.kind = "float" /\ b = Two /\ e.mant = <<1>> /\ e.den = 0 /\ e.num < 0 ->
            PyFloat(<<1>>, 1, -e.num)

\* x * y: int * int is exact; an int operand of a float is converted to float first
\* (OverflowError when it has more than 1024 bits), and the product is a float.
PyMul(x, y) ==
    CASE x.kind = "int" /\ y.kind = "int" ->
            [kind |-> "int", neg |-> x.neg # y.neg, mag |-> BigMul(x.mag, y.mag)]
      [] x.kind = "int" /\ y.kind = "float" ->
            IF BitLength(x.mag) > 1024 THEN [kind |-> "error", exc |-> "OverflowError"]
            ELSE PyFloat(BigMul(x.mag, y.mant), y.num, y.den)
      [] x.kind = "float" /\ y.kind = "int" ->
            IF BitLength(y.mag) > 1024 THEN [kind |-> "error", exc |-> "OverflowError"]
            ELSE PyFloat(BigMul(x.mant, y.mag), x.num, x.den)
      [] x.kind = "float" /\ y.kind = "float" ->
            LET e == AddDyadic(x.num, x.den, y.num, y.den)
            IN  PyFloat(BigMul(x.mant, y.mant), e[1], e[2])

\* mutant of range: the list starts one early (a-1, ..., b-2)
range_FromZero(a, b) == [j \in 1..(IF b > a THEN b - a ELSE 0) |-> a + j - 2]

\* range(a, b): the list a, a+1, ..., b-1
range(a, b) == [j \in 1..(IF b > a THEN b - a ELSE 0) |-> a + j - 1]

(***************************************************************************)
(* "%d" formatting.                                                        *)
(***************************************************************************)
Digit == <<"0", "1", "2", "3", "4", "5", "6", "7", "8", "9">>

RECURSIVE BigDecRec(_)
BigDecRec(a) ==
    IF a = <<>> THEN ""
    ELSE LET qr == DivSmall(a, 10)
         IN  BigDecRec(Norm(qr.q)) \o Digit[qr.r + 1]

BigDec(a) == IF a = <<>> THEN "0" ELSE BigDecRec(a)

\* int(f) of a float f, truncating toward zero: an exact float mant * 2^num, or an
\* inexact one in [1.0, 2.0) (the only floats the script formats).
FloatTrunc(f) ==
    CASE f.den = 0 /\ f.num >= 0 -> BigMul(f.mant, BigPow(<<2>>, f.num))
      [] f.den = 0 /\ f.num < 0 /\ f.mant = <<1>> -> <<>>
      [] f.den > 0 /\ f.mant = <<1>> /\ 0 < f.num /\ f.num < 2^f.den -> <<1>>

\* "%d" % v
FormatD(v) ==
    CASE v.kind = "int"   -> (IF v.neg THEN "-" ELSE "") \o BigDec(v.mag)
      [] v.kind = "float" -> BigDec(FloatTrunc(v))

(***************************************************************************)
(* The functions of math.py.                                               *)
(***************************************************************************)
\* mutant of prodBody: the inner pow is dropped, the factor is 2^(h-k)
prodBody_NoInnerPow(res, hh, kk) == PyMul(res, pow(Two, PyInt(hh - kk)))

\* mutant of prodBody: the exponent counts up, the factor is 2^(2^(k-1))
prodBody_CountUp(res, hh, kk) == PyMul(res, pow(Two, pow(Two, PyInt(kk - 1))))

\* line 7: result *= pow(2, pow(2, h - k))
prodBody(res, hh, kk) == PyMul(res, pow(Two, pow(Two, PyInt(hh - kk))))

\* mutant of LoopCond: the last iteration is left out (k < i)
LoopCond_Strict(kk, ii) == kk < ii

\* line 6: the condition of the while loop
LoopCond(kk, ii) == kk <= ii

\* lines 6-9: the while loop and the return, from a given k and result
RECURSIVE prodLoop(_, _, _, _)
prodLoop(ii, hh, kk, res) ==
    IF res.kind = "error" THEN res
    ELSE IF LoopCond(kk, ii) THEN prodLoop(ii, hh, kk + 1, prodBody(res, hh, kk))
    ELSE res

\* lines 3-9
prod(ii, hh) == prodLoop(ii, hh, 1, One)

\* mutant of prod2: the exponent is 1 - i
prod2_OffByOne(ii) == pow(Two, pow(Two, PyInt(1 - ii)))

\* mutant of prod2: the outer pow is dropped, the value is 2^(2-i)
prod2_SinglePow(ii) == pow(Two, PyInt(2 - ii))

\* lines 11-12
prod2(ii) == pow(Two, pow(Two, PyInt(2 - ii)))

\* lines 16, 17: the line a print statement writes
Line16(ii, v) == "prod i = " \o FormatD(PyInt(ii)) \o ": " \o FormatD(v)

\* mutant of Line17: the label of line 16 is printed
Line17_WrongLabel(ii, v) == "prod i = " \o FormatD(PyInt(ii)) \o ": " \o FormatD(v)

Line17(ii, v) == "prod2 i = " \o FormatD(PyInt(ii)) \o ": " \o FormatD(v)

(***************************************************************************)
(* The state machine. A run is one call: prod(i, h), prod2(i) or test(h);  *)
(* test(2) is the call the script itself makes (line 19).                  *)
(***************************************************************************)
Calls ==
    [fn : {"prod"}, i : (-NegI)..MaxI, h : (-NegH)..MaxH]
        \cup [fn : {"prod2"}, i : (-NegI)..MaxI2]
        \cup [fn : {"test"}, h : 0..MaxTestH]

Init ==
    /\ call \in Calls
    /\ pc = "start"
    /\ caller = "none"
    /\ i = 0 /\ h = 0 /\ k = 0
    /\ result = None
    /\ iters = 0
    /\ ret = None
    /\ th = 0 /\ rng = <<>> /\ pos = 0 /\ ti = 0
    /\ out = <<>>

\* mutant of ProdEntry: k starts at 0
ProdEntry_KZero(ii, hh, who) ==
    /\ i' = ii /\ h' = hh
    /\ result' = One
    /\ k' = 0
    /\ iters' = 0
    /\ caller' = who
    /\ pc' = "loop"

\* lines 3-5: bind the arguments, result = 1, k = 1
ProdEntry(ii, hh, who) ==
    /\ i' = ii /\ h' = hh
    /\ result' = One
    /\ k' = 1
    /\ iters' = 0
    /\ caller' = who
    /\ pc' = "loop"

\* prod(i, h) called directly
ProdEnter ==
    /\ pc = "start" /\ call.fn = "prod"
    /\ ProdEntry(call.i, call.h, "harness")
    /\ UNCHANGED <<call, ret, th, rng, pos, ti, out>>

\* lines 6-8: one iteration of the while loop
ProdLoop ==
    /\ pc = "loop" /\ LoopCond(k, i)
    /\ LET r == prodBody(result, h, k)
       IN  IF r.kind = "error"
           THEN /\ pc' = "raised"
                /\ UNCHANGED <<result, k, iters>>
           ELSE /\ result' = r
                /\ k' = k + 1
                /\ iters' = iters + 1
                /\ pc' = "loop"
    /\ UNCHANGED <<call, caller, i, h, ret, th, rng, pos, ti, out>>

\* line 6 (condition false) and line 9: return result
ProdReturn ==
    /\ pc = "loop" /\ ~LoopCond(k, i)
    /\ ret' = result
    /\ pc' = IF caller = "test" THEN "print16" ELSE "done"
    /\ UNCHANGED <<call, caller, i, h, k, result, iters, th, rng, pos, ti, out>>

\* lines 11-12: prod2(i) called directly
Prod2Call ==
    /\ pc = "start" /\ call.fn = "prod2"
    /\ ret' = prod2(call.i)
    /\ pc' = "done"
    /\ UNCHANGED <<call, caller, i, h, k, result, iters, th, rng, pos, ti, out>>

\* line 14 and the list of line 15: test(h) called
TestEnter ==
    /\ pc = "start" /\ call.fn = "test"
    /\ th' = call.h
    /\ rng' = range(1, call.h + 1)
    /\ pos' = 0
    /\ pc' = "for"
    /\ UNCHANGED <<call, caller, i, h, k, result, iters, ret, ti, out>>

\* line 15: the for statement takes the next element, or ends the loop
TestFor ==
    /\ pc = "for"
    /\ IF pos < Len(rng)
       THEN /\ ti' = rng[pos + 1]
            /\ pos' = pos + 1
            /\ pc' = "call16"
       ELSE /\ pc' = "done"
            /\ UNCHANGED <<ti, pos>>
    /\ UNCHANGED <<call, caller, i, h, k, result, iters, ret, th, rng, out>>

\* line 16: the call prod(i, h)
TestCallProd ==
    /\ pc = "call16"
    /\ ProdEntry(ti, th, "test")
    /\ UNCHANGED <<call, ret, th, rng, pos, ti, out>>

\* line 16: print the formatted line
TestPrint16 ==
    /\ pc = "print16"
    /\ out' = Append(out, Line16(ti, ret))
    /\ pc' = "line17"
    /\ UNCHANGED <<call, caller, i, h, k, result, iters, ret, th, rng, pos, ti>>

\* line 17: print the line of prod2(i)
TestPrint17 ==
    /\ pc = "line17"
    /\ out' = Append(out, Line17(ti, prod2(ti)))
    /\ pc' = "for"
    /\ UNCHANGED <<call, caller, i, h, k, result, iters, ret, th, rng, pos, ti>>

Next ==
    \/ ProdEnter
    \/ ProdLoop
    \/ ProdReturn
    \/ Prod2Call
    \/ TestEnter
    \/ TestFor
    \/ TestCallProd
    \/ TestPrint16
    \/ TestPrint17

Spec == Init /\ [][Next]_vars

(***************************************************************************)
(* Reference values, computed without the operators above.                 *)
(***************************************************************************)
\* 2^e as a digit sequence: one digit 2^(e mod 15) above e div 15 zero digits
Pow2Big(e) == [j \in 1..(e \div 15 + 1) |-> IF j = e \div 15 + 1 THEN 2^(e % 15) ELSE 0]

\* 2^(h-1) + 2^(h-2) + ... + 2^(h-n), for n <= h
RECURSIVE SumExp(_, _)
SumExp(n, hh) == IF n <= 0 THEN 0 ELSE SumExp(n - 1, hh) + 2^(hh - n)

\* the same sum for any n, as the dyadic rational <<num, den>> = num / 2^den in
\* lowest terms (den > 0 exactly when n > hh and n >= 1)
ExpSumDyadic(n, hh) ==
    IF n <= 0 THEN <<0, 0>>
    ELSE IF n <= hh THEN <<SumExp(n, hh), 0>>
    ELSE <<SumExp(n, n), n - hh>>

\* v is exactly the real number 2^(e[1] / 2^e[2]). With e[2] > 0 that number is
\* irrational, and no int or float equals it.
IsExactlyPow2(v, e) ==
    /\ e[2] = 0
    /\ \/ v = [kind |-> "int", neg |-> FALSE, mag |-> Pow2Big(e[1])]
       \/ /\ v.kind = "float" /\ v.den = 0 /\ v.num >= 0
          /\ BigMul(v.mant, Pow2Big(v.num)) = Pow2Big(e[1])

IntOf(mag) == [kind |-> "int", neg |-> FALSE, mag |-> mag]

\* prod has returned: to the direct caller, or to line 16 of test
ProdReturned == pc = "print16" \/ (pc = "done" /\ call.fn = "prod")

(***************************************************************************)
(* C1: for h >= 1 and 1 <= i <= h, prod(i, h) returns the product over     *)
(* k = 1..i of 2^(2^(h-k)), here 2 to the sum of the exponents 2^(h-k).    *)
(***************************************************************************)
C1_ProdIsProduct ==
    (ProdReturned /\ h >= 1 /\ 1 <= i /\ i <= h)
        => ret = IntOf(Pow2Big(SumExp(i, h)))

C1_Witness ==
    /\ pc = "done" /\ call.fn = "prod" /\ i = 3 /\ h = 4
    /\ ret = IntOf(<<16384>>)

(***************************************************************************)
(* C2, as stated: for h >= 1, prod(h, h) returns 2.                        *)
(***************************************************************************)
C2_Original == (ProdReturned /\ h >= 1 /\ i = h) => ret = IntOf(<<2>>)

(***************************************************************************)
(* C2, amended: for h >= 1, prod(h, h) returns 2^(2^h - 1), which is 2     *)
(* only when h = 1.                                                        *)
(***************************************************************************)
C2_Amended ==
    (ProdReturned /\ h >= 1 /\ i = h)
        => /\ ret = IntOf(Pow2Big(2^h - 1))
           /\ (ret = IntOf(<<2>>)) <=> (h = 1)

C2_Witness ==
    /\ pc = "done" /\ call.fn = "prod" /\ i = 3 /\ h = 3
    /\ ret = IntOf(<<128>>)

(***************************************************************************)
(* C3, as stated: for i in {1, 2}, prod(i, 2) equals prod2(i).             *)
(***************************************************************************)
C3_Original == (ProdReturned /\ h = 2 /\ i \in {1, 2}) => ret = prod2(i)

(***************************************************************************)
(* C3, amended: at h = 2 the two functions agree at i = 1 only, where both *)
(* are 4; at i = 2, prod(2, 2) is 8 and prod2(2) is 2.                     *)
(***************************************************************************)
C3_Amended ==
    (ProdReturned /\ h = 2 /\ i \in {1, 2})
        => /\ (ret = prod2(i)) <=> (i = 1)
           /\ i = 1 => (ret = IntOf(<<4>>) /\ prod2(i) = IntOf(<<4>>))
           /\ i = 2 => (ret = IntOf(<<8>>) /\ prod2(i) = IntOf(<<2>>))

C3_Witness ==
    /\ ProdReturned /\ h = 2 /\ i = 2
    /\ ret = IntOf(<<8>>) /\ prod2(2) = IntOf(<<2>>)

(***************************************************************************)
(* C4, as stated: test(2) prints "prod i = 1: 4", "prod2 i = 1: 4",        *)
(* "prod i = 2: 6", "prod2 i = 2: 2".                                      *)
(***************************************************************************)
C4_Original ==
    (pc = "done" /\ call = [fn |-> "test", h |-> 2])
        => out = <<"prod i = 1: 4", "prod2 i = 1: 4", "prod i = 2: 6", "prod2 i = 2: 2">>

(***************************************************************************)
(* C4, amended: test(2) prints exactly four lines, in this order:          *)
(* "prod i = 1: 4", "prod2 i = 1: 4", "prod i = 2: 8", "prod2 i = 2: 2".   *)
(***************************************************************************)
C4_Amended ==
    (pc = "done" /\ call = [fn |-> "test", h |-> 2])
        => out = <<"prod i = 1: 4", "prod2 i = 1: 4", "prod i = 2: 8", "prod2 i = 2: 2">>

C4_Witness == pc = "done" /\ call = [fn |-> "test", h |-> 2] /\ Len(out) = 4

(***************************************************************************)
(* C5: for every h and every i < 1, prod(i, h) runs no loop iteration and  *)
(* returns 1.                                                              *)
(***************************************************************************)
C5_EmptyProduct ==
    /\ (pc = "loop" /\ i < 1) => (iters = 0 /\ k = 1 /\ result = IntOf(<<1>>))
    /\ (ProdReturned /\ i < 1) => (iters = 0 /\ ret = IntOf(<<1>>))

C5_Witness ==
    /\ pc = "done" /\ call.fn = "prod" /\ i = 0 /\ h = 3
    /\ iters = 0 /\ ret = IntOf(<<1>>)

(***************************************************************************)
(* C6: prod2(i) returns 2^(2^(2-i)) for every i <= 2; prod2(1) is 4 and    *)
(* prod2(2) is 2.                                                          *)
(***************************************************************************)
C6_Prod2Value ==
    (pc = "done" /\ call.fn = "prod2" /\ call.i <= 2)
        => /\ ret = IntOf(Pow2Big(2^(2 - call.i)))
           /\ call.i = 1 => ret = IntOf(<<4>>)
           /\ call.i = 2 => ret = IntOf(<<2>>)

C6_Witness == pc = "done" /\ call.fn = "prod2" /\ call.i = 1 /\ ret = IntOf(<<4>>)

(***************************************************************************)
(* C7: for h >= 1, test(h) prints exactly 2*h lines and stops: for i = 1,  *)
(* ..., h in ascending order the line of prod(i, h) labelled i, followed   *)
(* at once by the line of prod2(i) labelled i. At every moment the output  *)
(* is the prefix of that list that the position in the loop determines.    *)
(***************************************************************************)
TestExpected(hh) ==
    [n \in 1..(2 * hh) |->
        IF n % 2 = 1
        THEN Line16((n + 1) \div 2, prod((n + 1) \div 2, hh))
        ELSE Line17(n \div 2, prod2(n \div 2))]

C7_TestOutput ==
    (call.fn = "test" /\ call.h >= 1 /\ pc # "start")
        => /\ Len(out) <= 2 * call.h
           /\ out = SubSeq(TestExpected(call.h), 1, Len(out))
           /\ pc = "for" => Len(out) = 2 * pos
           /\ pc \in {"call16", "loop", "print16"} => (ti = pos /\ Len(out) = 2 * ti - 2)
           /\ pc = "line17" => (ti = pos /\ Len(out) = 2 * ti - 1)
           /\ pc = "done" => (Len(out) = 2 * call.h /\ ~ENABLED Next)

C7_Witness ==
    /\ pc = "done" /\ call = [fn |-> "test", h |-> 3]
    /\ out = <<"prod i = 1: 16", "prod2 i = 1: 4", "prod i = 2: 64", "prod2 i = 2: 2",
               "prod i = 3: 128", "prod2 i = 3: 1">>

(***************************************************************************)
(* Whether an int fits a 64-bit accumulator: signed (at most 63 bits of    *)
(* magnitude) or unsigned (at most 64 bits).                               *)
(***************************************************************************)
FitsSigned64(v) == v.kind = "int" /\ BitLength(v.mag) <= 63

FitsUnsigned64(v) == v.kind = "int" /\ BitLength(v.mag) <= 64

\* the loop head reached after the first iteration (k = 1) of a call with h >= 1
AfterFirstIteration == pc = "loop" /\ iters = 1 /\ k = 2 /\ h >= 1

(***************************************************************************)
(* C8, as stated: for every h >= 3 the factor 2^(2^(h-1)) multiplied into  *)
(* result at k = 1 does not fit in 64 bits.                                *)
(***************************************************************************)
C8_Original == (AfterFirstIteration /\ h >= 3) => ~FitsUnsigned64(result)

(***************************************************************************)
(* C8, amended: a 64-bit accumulator overflows at the first iteration      *)
(* (k = 1) exactly when h >= 7: the factor 2^(2^(h-1)) is then at least    *)
(* 2^64; for 1 <= h <= 6 it is at most 2^32 and fits, signed or unsigned.  *)
(***************************************************************************)
C8_Amended ==
    AfterFirstIteration
        => /\ result = IntOf(Pow2Big(2^(h - 1)))
           /\ h >= 7 => (~FitsUnsigned64(result) /\ ~FitsSigned64(result))
           /\ h <= 6 => (FitsSigned64(result) /\ BitLength(result.mag) <= 33)

C8_Witness ==
    /\ AfterFirstIteration /\ h = 7
    /\ BitLength(result.mag) = 65 /\ ~FitsUnsigned64(result)

(***************************************************************************)
(* C9, as stated: for all i and h the loop ends after exactly max(i, 0)    *)
(* iterations; at every loop head 1 <= k <= max(i, 0) + 1 and result is    *)
(* the product over j = 1..k-1 of 2^(2^(h-j)); k grows by one per          *)
(* iteration and i and h keep the values the call was made with.           *)
(***************************************************************************)
Max0(n) == IF n < 0 THEN 0 ELSE n

\* the arguments the running call of prod was made with
ArgI == IF caller = "test" THEN ti ELSE call.i

ArgH == IF caller = "test" THEN th ELSE call.h

LoopShape ==
    /\ pc = "loop"
        => /\ 1 <= k /\ k <= Max0(i) + 1
           /\ k = iters + 1
           /\ i = ArgI /\ h = ArgH
    /\ ProdReturned
        => /\ iters = Max0(i) /\ k = Max0(i) + 1
           /\ i = ArgI /\ h = ArgH
           /\ ret = result

C9_Original ==
    /\ LoopShape
    /\ pc = "loop" => IsExactlyPow2(result, ExpSumDyadic(k - 1, h))

(***************************************************************************)
(* C9, amended: for all i and h with i <= h or i < 1 the claim holds as    *)
(* stated. For i > h (i >= 1) the factors with j > h are floats, and from  *)
(* the loop head k = max(h, 0) + 2 on result is a float that approximates  *)
(* the (irrational) product without being equal to it.                     *)
(***************************************************************************)
C9_Amended ==
    /\ (i <= h \/ i < 1) =>
          /\ LoopShape
          /\ pc = "loop" => IsExactlyPow2(result, ExpSumDyadic(k - 1, h))
    /\ (pc = "loop" /\ k - 1 <= h) => IsExactlyPow2(result, ExpSumDyadic(k - 1, h))
    /\ (pc = "loop" /\ k - 1 > h /\ k > 1) =>
          /\ result.kind = "float" /\ result.den > 0
          /\ LET e == ExpSumDyadic(k - 1, h)
             IN  <<result.num, result.den>> = <<e[1] % 2^e[2], e[2]>>
                 /\ result.mant = Pow2Big(e[1] \div 2^e[2])

C9_Witness ==
    /\ pc = "loop" /\ caller = "harness" /\ i = 4 /\ h = 5 /\ k = 5 /\ iters = 4
    /\ result = IntOf(Pow2Big(30))

(***************************************************************************)
(* C10: for h >= 1 and 0 <= i <= h, prod(i, h) is 2^(2^h - 2^(h-i)), a     *)
(* power of two; for 1 <= i <= h it is prod(i-1, h) * 2^(2^(h-i)), and     *)
(* strictly larger than prod(i-1, h).                                      *)
(***************************************************************************)
C10_ClosedForm ==
    (ProdReturned /\ h >= 1 /\ 0 <= i /\ i <= h)
        => /\ ret = IntOf(Pow2Big(2^h - 2^(h - i)))
           /\ i >= 1 =>
                /\ prod(i - 1, h).kind = "int"
                /\ ret.mag = BigMul(prod(i - 1, h).mag, Pow2Big(2^(h - i)))
                /\ BigLess(prod(i - 1, h).mag, ret.mag)

C10_Witness ==
    /\ pc = "done" /\ call.fn = "prod" /\ i = 2 /\ h = 3
    /\ ret = IntOf(<<64>>) /\ prod(1, 3) = IntOf(<<16>>)

====
